---- MODULE Spec2Model ----
(***************************************************************************)
(* The retrieval-and-synthesis query engine of VaultFlow (src/src/lib/ai.ts, *)
(* lines 1-618).  Module state of ai.ts is the global state; every call of  *)
(* queryVault is a process whose position (pc) is the await it is suspended *)
(* at.  One action is one synchronous run of the code between two awaits.   *)
(*                                                                         *)
(* Text is modelled as a sequence of tokens (strings).  A token is either   *)
(* a complete citation marker "[File: name]" or a piece of text holding no  *)
(* complete marker.  Document content is a sequence of lines.               *)
(***************************************************************************)
EXTENDS Integers, Sequences, FiniteSets, TLC

VARIABLES
    currentMode,        \* ai.ts:51   'openai' | 'local'
    openaiClient,       \* ai.ts:41   TRUE when a client object exists
    embeddingPipeline,  \* ai.ts:44   TRUE when the model is memoized
    isModelLoading,     \* ai.ts:47
    modelLoadProgress,  \* ai.ts:48
    vault,              \* the documents of the vault, in enumeration order
    pool,               \* what the callers and the environment may choose
    calc,               \* a call of one of the module's pure functions
    qs                  \* per call of queryVault: its local variables

vars == <<currentMode, openaiClient, embeddingPipeline, isModelLoading,
          modelLoadProgress, vault, pool, calc, qs>>

globals == <<currentMode, openaiClient, embeddingPipeline, isModelLoading,
             modelLoadProgress>>

\* ------------------------------------------------------------------------
\* Bounds of the model
\* ------------------------------------------------------------------------
MaxDocs == 3

Callers == {"q1", "q2"}
Modes == {"local", "openai"}

\* ------------------------------------------------------------------------
\* Sequence helpers
\* ------------------------------------------------------------------------
Min(a, b) == IF a < b THEN a ELSE b

Take(s, n) == SubSeq(s, 1, Min(n, Len(s)))

Range(s) == {s[k] : k \in 1..Len(s)}

RECURSIVE Flatten(_)
Flatten(ss) == IF ss = <<>> THEN <<>> ELSE Head(ss) \o Flatten(Tail(ss))

\* [...new Set(xs)]: first occurrences, in order
RECURSIVE Dedupe(_)
Dedupe(xs) ==
    IF xs = <<>> THEN <<>>
    ELSE LET init == Dedupe(SubSeq(xs, 1, Len(xs) - 1))
             last == xs[Len(xs)]
         IN  IF last \in Range(init) THEN init ELSE Append(init, last)

\* ------------------------------------------------------------------------
\* The vault: documents, in the order readDirectory returns them
\* (vault.ts sorts entries by name), and their content as lines.
\* ------------------------------------------------------------------------
AllDocs == <<"list.md", "notes.md", "random.md", "Todo.md">>

DocLines(p) ==
    CASE p = "Todo.md"   -> <<"# Todos", "- Buy milk", "- call bob">>
      [] p = "random.md" -> <<"Weather is nice">>
      [] p = "notes.md"  -> <<"Meeting notes:", "1. agenda", "see you">>
      [] p = "list.md"   -> <<"* eggs">>
      [] OTHER           -> <<>>

\* the vaults of the model: the last n documents of AllDocs, n <= MaxDocs
Vaults == {SubSeq(AllDocs, Len(AllDocs) - n + 1, Len(AllDocs)) :
              n \in 0..Min(MaxDocs, Len(AllDocs))}

\* file.toLowerCase() on paths
LowerPath(p) == IF p = "Todo.md" THEN "todo.md" ELSE p

\* ------------------------------------------------------------------------
\* Queries.  String functions of the code are tables over the strings of
\* the model, evaluated as JavaScript evaluates them.
\* ------------------------------------------------------------------------
AllQueries ==
    {"hey", "Hey ", "hello", "yo", "list my todos", "c++ notes", "summarize todo"}

\* query.trim()
Trim(q) == IF q = "Hey " THEN "Hey" ELSE q

\* s.toLowerCase() on query strings
LowerQ(q) == CASE q = "Hey " -> "hey " [] q = "Hey" -> "hey" [] OTHER -> q

\* s.split(/\s+/)
Words(q) ==
    CASE q = "hey"  -> <<"hey">>
      [] q = "hey " -> <<"hey", "">>
      [] q = "yo"   -> <<"yo">>
      [] q = "hello" -> <<"hello">>
      [] q = "list my todos"  -> <<"list", "my", "todos">>
      [] q = "c++ notes"      -> <<"c++", "notes">>
      [] q = "summarize todo" -> <<"summarize", "todo">>
      [] q = "todo todo"      -> <<"todo", "todo">>
      [] q = "summarize my list" -> <<"summarize", "my", "list">>
      [] q = "what is in todo"   -> <<"what", "is", "in", "todo">>
      [] q = "what does todo contain" -> <<"what", "does", "todo", "contain">>
      [] q = "what does my list contain" -> <<"what", "does", "my", "list", "contain">>
      [] q = "milk today"        -> <<"milk", "today">>
      [] OTHER -> <<q>>

GreetingTokens == {"hey", "hi", "hello", "hey there", "what's up", "sup"}

\* the greeting test without trim() and without the i flag
IsGreeting_Exact(q) == q \in GreetingTokens

\* /^(hey|hi|hello|hey there|what's up|sup)$/i.test(query.trim())
IsGreeting(q) == LowerQ(Trim(q)) \in GreetingTokens

MinQueryLen == 3
\* query.trim().length > 3
Substantial(q) == Len(Trim(q)) > MinQueryLen

\* ------------------------------------------------------------------------
\* Embedding vectors and cosine similarity.  The providers are external:
\* each text has one vector per provider; the local model gives vectors of
\* one dimension, the remote endpoint vectors of another.
\* ------------------------------------------------------------------------
LocalVector(text) ==
    CASE text = "list my todos"  -> <<1, 0>>
      [] text = "summarize todo" -> <<1, 1>>
      [] text = "c++ notes"      -> <<0, 1>>
      [] text = "Todo.md"        -> <<4, 1>>
      [] text = "random.md"      -> <<0, 1>>
      [] text = "notes.md"       -> <<1, 3>>
      [] text = "list.md"        -> <<1, 4>>
      [] OTHER                   -> <<1, 2>>

RemoteVector(text) == LocalVector(text) \o <<0>>

RECURSIVE DotProduct(_, _)
DotProduct(a, b) ==
    IF a = <<>> THEN 0 ELSE Head(a) * Head(b) + DotProduct(Tail(a), Tail(b))

\* A similarity is the real number num / sqrt(den2); den2 = 0 is NaN (0/0).
ZeroScore == [num |-> 0, den2 |-> 1]

\* vectors of different lengths compared over their common prefix
cosineSimilarity_CommonPrefix(a, b) ==
    IF Len(a) = 0 \/ Len(b) = 0 THEN ZeroScore
    ELSE LET n == Min(Len(a), Len(b))
         IN  [num |-> DotProduct(Take(a, n), Take(b, n)),
              den2 |-> DotProduct(a, a) * DotProduct(b, b)]

cosineSimilarity(a, b) ==
    IF Len(a) # Len(b) \/ Len(a) = 0 THEN ZeroScore
    ELSE [num |-> DotProduct(a, b), den2 |-> DotProduct(a, a) * DotProduct(b, b)]

SimilarityThresholdPct == 30

\* item.score > 0.3
AboveThreshold(s) ==
    /\ s.den2 # 0
    /\ s.num > 0
    /\ 10000 * s.num * s.num > SimilarityThresholdPct * SimilarityThresholdPct * s.den2

\* s > t, for two similarities that are not NaN
ScoreGreater(s, t) ==
    IF s.num <= 0 THEN t.num < 0 /\ s.num * s.num * t.den2 < t.num * t.num * s.den2
    ELSE t.num <= 0 \/ s.num * s.num * t.den2 > t.num * t.num * s.den2

\* Array.prototype.sort((a, b) => b.score - a.score): stable, descending.
\* An item's place is the number of items that sort before it.
SortByScore(items) ==
    LET n == Len(items)
        before(m, k) == \/ ScoreGreater(items[m].score, items[k].score)
                        \/ ~ScoreGreater(items[k].score, items[m].score) /\ m < k
        place(k) == Cardinality({m \in 1..n : before(m, k)}) + 1
    IN  [p \in 1..n |-> items[CHOOSE k \in 1..n : place(k) = p]]

FileOf(items) == [k \in 1..Len(items) |-> items[k].file]

MaxScan == 30

\* the candidates cut to maxContextFiles before they are sorted
RankSemantic_SliceFirst(fileScores, maxContextFiles) ==
    LET kept == SelectSeq(fileScores, LAMBDA it : AboveThreshold(it.score))
    IN  FileOf(SortByScore(Take(kept, maxContextFiles)))

\* ai.ts:496-500
RankSemantic(fileScores, maxContextFiles) ==
    LET kept == SelectSeq(fileScores, LAMBDA it : AboveThreshold(it.score))
    IN  FileOf(Take(SortByScore(kept), maxContextFiles))

\* ------------------------------------------------------------------------
\* The lexical ranker, findRelevantFiles
\* ------------------------------------------------------------------------
MinKeywordLen == 2
Keywords(query) == SelectSeq(Words(LowerQ(query)), LAMBDA w : Len(w) > MinKeywordLen)

\* new RegExp(keyword, 'g') throws a SyntaxError on these
InvalidRegex == {"c++"}

\* fileLower.match(new RegExp(keyword, 'g'))?.length || 0
Occurrences(fileLower, keyword) ==
    CASE fileLower = "todo.md"  /\ keyword = "todo"  -> 1
      [] fileLower = "todo-todo.md" /\ keyword = "todo" -> 2
      [] fileLower = "notes.md" /\ keyword = "notes" -> 1
      [] fileLower = "list.md"  /\ keyword = "list"  -> 1
      [] OTHER -> 0

\* fileLower.includes(keyword)
Includes(fileLower, keyword) == Occurrences(fileLower, keyword) > 0

IncludePoints == 10
OccurrencePoints == 2

RECURSIVE LexicalScore(_, _)
LexicalScore(fileLower, keywords) ==
    IF keywords = <<>> THEN 0
    ELSE (IF Includes(fileLower, Head(keywords)) THEN IncludePoints ELSE 0)
         + Occurrences(fileLower, Head(keywords)) * OccurrencePoints
         + LexicalScore(fileLower, Tail(keywords))

\* the scoring callback runs once per file, so an invalid keyword throws
\* only when there is a file
findRelevantFilesThrows(files, query) ==
    /\ files # <<>>
    /\ \E k \in 1..Len(Keywords(query)) : Keywords(query)[k] \in InvalidRegex

\* scored.sort((a, b) => b.score - a.score) over keyword scores: stable,
\* descending
SortByPoints(items) ==
    LET n == Len(items)
        before(m, k) == \/ items[m].score > items[k].score
                        \/ items[m].score = items[k].score /\ m < k
        place(k) == Cardinality({m \in 1..n : before(m, k)}) + 1
    IN  [p \in 1..n |-> items[CHOOSE k \in 1..n : place(k) = p]]

findRelevantFiles(files, query) ==
    LET scored == [k \in 1..Len(files) |->
                      [file |-> files[k],
                       score |-> LexicalScore(LowerPath(files[k]), Keywords(query))]]
        sorted == SortByPoints(scored)
    IN  FileOf(SelectSeq(sorted, LAMBDA it : it.score > 0))

\* ------------------------------------------------------------------------
\* Text: tokens, citation markers, toLowerCase
\* ------------------------------------------------------------------------
Marker(name) == "[File: " \o name \o "]"

\* names a marker of the model can hold
CitableNames == Range(AllDocs) \cup {"ghost.md"}

IsMarker(t) == \E n \in CitableNames : t = Marker(n)
MarkerName(t) == CHOOSE n \in CitableNames : t = Marker(n)

PERSONA ==
    [introPhrases |-> <<"Sure! Based on your notes",
                        "Let me check your notes on that",
                        "I found some relevant information",
                        "Here's what I discovered in your vault",
                        "Looking at your notes">>,
     thinkingPhrases |-> <<"Let me look at your notes on this...",
                           "Checking what you've written about that...",
                           "Searching through your vault...",
                           "Let me find the relevant information...">>,
     connectorPhrases |-> <<"Here's what I found",
                            "Here's the information",
                            "Here are the key points",
                            "This is what stands out">>]

\* String.prototype.toLowerCase on the tokens of the model that hold an
\* upper-case letter; every other token is its own lower case
LowerTable ==
    "Todo.md" :> "todo.md" @@ "Todo" :> "todo" @@ "Todos" :> "todos"
    @@ "# Todos" :> "# todos" @@ "- Buy milk" :> "- buy milk"
    @@ "Weather is nice" :> "weather is nice"
    @@ "Meeting notes:" :> "meeting notes:" @@ "Meeting notes" :> "meeting notes"
    @@ "**From " :> "**from " @@ "**Sources:** " :> "**sources:** "
    @@ "**Todos**" :> "**todos**" @@ "Hey" :> "hey"
    @@ "Let me look at your notes on this..." :> "let me look at your notes on this..."
    @@ "Checking what you've written about that..." :> "checking what you've written about that..."
    @@ "Searching through your vault..." :> "searching through your vault..."
    @@ "Let me find the relevant information..." :> "let me find the relevant information..."
    @@ "Here's what I found" :> "here's what i found"
    @@ "Here's the information" :> "here's the information"
    @@ "Here are the key points" :> "here are the key points"
    @@ "This is what stands out" :> "this is what stands out"
    @@ "No relevant information found." :> "no relevant information found."
    @@ "I couldn't find relevant information in your vault notes for that question."
         :> "i couldn't find relevant information in your vault notes for that question."
    @@ "No response generated." :> "no response generated."
    @@ "The todos are in " :> "the todos are in "
    @@ "Here's a note from " :> "here's a note from "
    @@ "See " :> "see "
    @@ "[File: Todo.md" :> "[file: todo.md"

LowerToken(t) ==
    IF IsMarker(t) THEN "[file: " \o LowerPath(MarkerName(t)) \o "]"
    ELSE IF t \in DOMAIN LowerTable THEN LowerTable[t] ELSE t

\* text.toLowerCase()
LowerText(text) == [k \in 1..Len(text) |-> LowerToken(text[k])]

\* /^(Sure!|Let me|Here's|I found|Looking at)/i on the text's first token
ConversationalStarts ==
    {"Let me look at your notes on this...", "Let me find the relevant information...",
     "Here's what I found", "Here's the information", "Here's a note from "}

StartsConversational(text) == text # <<>> /\ Head(text) \in ConversationalStarts

\* a token that opens a marker and does not close it: "[File: name"
OpenMarker(name) == "[File: " \o name

IsOpenMarker(t) == \E n \in CitableNames : t = OpenMarker(n)
OpenName(t) == CHOOSE n \in CitableNames : t = OpenMarker(n)

\* The scan of /\[File: ([^\]]+)\]/g over the tokens from the left.  The
\* only tokens that hold a "]" are the complete markers.  pending is <<>>,
\* or <<s>> when a "[File: " is open and s is the text read since: the next
\* "]" closes the match, and the name captured is all of that text.
RECURSIVE ScanCitations(_, _)
ScanCitations(text, pending) ==
    IF text = <<>> THEN <<>>
    ELSE LET t == Head(text)
         IN  IF pending = <<>>
             THEN IF IsMarker(t)
                  THEN <<MarkerName(t)>> \o ScanCitations(Tail(text), <<>>)
                  ELSE IF IsOpenMarker(t)
                  THEN ScanCitations(Tail(text), <<OpenName(t)>>)
                  ELSE ScanCitations(Tail(text), <<>>)
             ELSE IF IsMarker(t)
                  THEN <<pending[1] \o OpenMarker(MarkerName(t))>>
                       \o ScanCitations(Tail(text), <<>>)
                  ELSE ScanCitations(Tail(text), <<pending[1] \o t>>)

\* ai.ts:556-561: every /\[File: ([^\]]+)\]/g match, in order
ExtractCitations(text) == ScanCitations(text, <<>>)

\* ai.ts:452
GreetingAnswer(n) ==
    <<"Hello! I'm your local AI assistant. I can help you find and understand information in your vault. You have ",
      ToString(n), IF n = 1 THEN " note" ELSE " notes",
      " available. What would you like to know?">>

\* ai.ts:515
NothingRelevantAnswer(query) ==
    <<"I couldn't find specific information about \"", query,
      "\" in your vault notes. Try asking about specific topics, files, or content you know is in your notes.">>

\* ------------------------------------------------------------------------
\* The local synthesizer: generateText in local mode (ai.ts:207-404).
\* It is given the prompt queryVault built and parses it back: the blocks
\* of the context (one per document read), the question (the query's first
\* line, trimmed) and the file names of the markers in the context.
\* ------------------------------------------------------------------------
SummaryFiles == 2
SectionLines == 8
ListItems == 10
KeyPoints == 8
PreviewLines == 5
GeneralLines == 10
FallbackLines == 8
SourcesShown == 5
PreviewChars == 300
ShortLineChars == 100
MinQuestionWordLen == 3

\* /summarize|summary|overview|what is|what's|tell me about/i.test(question)
MatchesSummarize(question) ==
    question \in {"summarize todo", "summarize my list", "what is in todo"}

\* /list|what are|which|name|show me/i.test(question)
MatchesEnumerate(question) ==
    question \in {"list my todos", "summarize my list", "what does my list contain"}

\* /what is in|what does.*contain|what's in/i.test(question)
MatchesContains(question) ==
    question \in {"what is in todo", "what does todo contain", "what does my list contain"}

\* line.match(/^#{1,6}\s/)
IsHashHeader(l) == l \in {"# Todos"}

\* trimmed.match(/^[A-Z][^:]*:$/) && !trimmed.includes('=')
IsColonHeader(l) == l \in {"Meeting notes:"}

\* line.match(/^[-*•]\s/) || line.match(/^\d+\.\s/)
IsListLine(l) == l \in {"- Buy milk", "- call bob", "1. agenda", "* eggs"}

\* line.match(/^={2,}$/)
IsRuleLine(l) == l \in {}

\* trimmed.replace(/^#+\s*/, '').replace(/:$/, '')
HeaderTitle(l) ==
    CASE l = "# Todos" -> "Todos" [] l = "Meeting notes:" -> "Meeting notes" [] OTHER -> l

\* fileMatch[1].replace(/\.md$/, '')
StripMd(p) ==
    CASE p = "Todo.md" -> "Todo" [] p = "random.md" -> "random"
      [] p = "notes.md" -> "notes" [] p = "list.md" -> "list" [] OTHER -> p

\* contentLower.includes(word)
ContentIncludes(p, word) ==
    <<p, word>> \in {<<"Todo.md", "todo">>, <<"Todo.md", "todos">>, <<"Todo.md", "milk">>,
                     <<"notes.md", "notes">>, <<"notes.md", "meeting">>,
                     <<"notes.md", "agenda">>, <<"random.md", "weather">>,
                     <<"random.md", "nice">>, <<"list.md", "eggs">>}

RECURSIVE CharCount(_)
CharCount(lines) ==
    IF lines = <<>> THEN 0
    ELSE Len(Head(lines)) + (IF Len(lines) > 1 THEN 1 ELSE 0) + CharCount(Tail(lines))

\* content.substring(0, 300) + (content.length > 300 ? '...' : '')
Preview(p, lines) ==
    IF CharCount(lines) <= PreviewChars THEN lines
    ELSE <<"<the first 300 characters of " \o p \o ">", "...">>

WithDots(lines, n) == Take(lines, n) \o (IF Len(lines) > n THEN <<"...">> ELSE <<>>)

\* ai.ts:245-265
RECURSIVE ParseSections(_, _, _, _)
ParseSections(lines, title, content, acc) ==
    LET closed == IF title # "" THEN Append(acc, [title |-> title, content |-> content])
                  ELSE acc
    IN  IF lines = <<>> THEN closed
        ELSE IF IsHashHeader(Head(lines)) \/ IsColonHeader(Head(lines))
             THEN ParseSections(Tail(lines), HeaderTitle(Head(lines)), <<>>, closed)
             ELSE ParseSections(Tail(lines), title, Append(content, Head(lines)), acc)

ThinkingPrefix(followUp, think) == IF followUp THEN <<think>> ELSE <<>>

SourcesFooter(files, andMore) ==
    IF files = <<>> THEN <<>>
    ELSE <<"**Sources:** ">> \o Take(files, SourcesShown)
         \o (IF andMore /\ Len(files) > SourcesShown THEN <<" and more...">> ELSE <<>>)

\* ai.ts:235-289
SummarizeAnswer(blocks, question, followUp, think, conn) ==
    LET section(sec) == <<"**", sec.title, "**">> \o WithDots(sec.content, SectionLines)
        chunk(p) ==
            LET secs == ParseSections(DocLines(p), "", <<>>, <<>>)
            IN  <<"**From ", p, ":**">>
                \o (IF secs # <<>>
                    THEN Flatten([k \in 1..Len(secs) |-> section(secs[k])])
                    ELSE Preview(p, DocLines(p)))
        used == Take(blocks, SummaryFiles)
    IN  ThinkingPrefix(followUp, think) \o <<conn, " about \"", question, "\":">>
        \o Flatten([k \in 1..Len(used) |-> chunk(used[k])])
        \o SourcesFooter(blocks, TRUE)

\* ai.ts:292-319
EnumerateAnswer(blocks, question, followUp, think, conn) ==
    LET items(p) == Take(SelectSeq(DocLines(p), IsListLine), ListItems)
        allItems == Flatten([k \in 1..Len(blocks) |-> items(blocks[k])])
        used == Take(blocks, SummaryFiles)
        dump == IF blocks = <<>> THEN <<"**From ", "your notes", ":**">>
                ELSE Flatten([k \in 1..Len(used) |->
                                 <<"**From ", used[k], ":**">> \o DocLines(used[k])])
    IN  ThinkingPrefix(followUp, think) \o <<conn, ":">>
        \o (IF allItems # <<>> THEN allItems ELSE dump)
        \o SourcesFooter(blocks, FALSE)

\* ai.ts:326-360
RECURSIVE CollectKeyPoints(_, _)
CollectKeyPoints(lines, acc) ==
    IF lines = <<>> \/ Len(acc) >= KeyPoints THEN acc
    ELSE LET l == Head(lines)
         IN  CollectKeyPoints(Tail(lines),
                 IF IsHashHeader(l) THEN acc \o <<"**" \o HeaderTitle(l) \o "**">>
                 ELSE IF IsListLine(l) THEN Append(acc, l)
                 ELSE IF Len(l) < ShortLineChars /\ ~IsRuleLine(l) THEN Append(acc, l)
                 ELSE acc)

ContainsAnswer(blocks) ==
    LET used == Take(blocks, SummaryFiles)
        chunk(p) ==
            LET kp == CollectKeyPoints(DocLines(p), <<>>)
            IN  <<"**", StripMd(p), "** contains:">>
                \o (IF kp # <<>> THEN kp ELSE Take(DocLines(p), PreviewLines))
    IN  Flatten([k \in 1..Len(used) |-> chunk(used[k])])

\* contextChunks.length (ai.ts:218): ''.split(sep) is [''], so an empty
\* context is one (empty) chunk
ChunkCount(blocks) == IF blocks = <<>> THEN 1 ELSE Len(blocks)

\* ai.ts:396
CouldNotFindAnswer ==
    <<"I couldn't find relevant information in your vault notes for that question.">>

\* ai.ts:361-394
OtherAnswer(blocks, question) ==
    LET questionWords == SelectSeq(Words(LowerQ(question)),
                                   LAMBDA w : Len(w) > MinQuestionWordLen)
        relevance(p) == Len(SelectSeq(questionWords, LAMBDA w : ContentIncludes(p, w)))
        used == Take(blocks, SummaryFiles)
        nChunks == ChunkCount(blocks)
        chunk(p) == IF relevance(p) > 0 \/ nChunks = 1
                    THEN <<"**", StripMd(p), "**:">> \o WithDots(DocLines(p), GeneralLines)
                    ELSE <<>>
        response == Flatten([k \in 1..Len(used) |-> chunk(used[k])])
        first == IF blocks = <<>> THEN <<"**", "your notes", "**:">>
                 ELSE <<"**", StripMd(blocks[1]), "**:">>
                      \o WithDots(DocLines(blocks[1]), FallbackLines)
    IN  IF response # <<>> THEN response ELSE first

\* ai.ts:321-403
GeneralAnswer(blocks, question) ==
    LET response == (IF ChunkCount(blocks) > 0
                     THEN IF MatchesContains(question) THEN ContainsAnswer(blocks)
                          ELSE OtherAnswer(blocks, question)
                     ELSE CouldNotFindAnswer)
                    \o SourcesFooter(blocks, TRUE)
    IN  IF response # <<>> THEN response ELSE <<"No relevant information found.">>

\* the enumerate family tested before the summarize family
generateTextLocal_EnumerateFirst(blocks, query, followUp, think, conn) ==
    LET question == Trim(query)
    IN  IF MatchesEnumerate(question)
        THEN EnumerateAnswer(blocks, question, followUp, think, conn)
        ELSE IF MatchesSummarize(question)
        THEN SummarizeAnswer(blocks, question, followUp, think, conn)
        ELSE GeneralAnswer(blocks, question)

\* ai.ts:207-404; think and conn are the phrases randomPhrase draws
generateTextLocal(blocks, query, followUp, think, conn) ==
    LET question == Trim(query)
    IN  IF MatchesSummarize(question)
        THEN SummarizeAnswer(blocks, question, followUp, think, conn)
        ELSE IF MatchesEnumerate(question)
        THEN EnumerateAnswer(blocks, question, followUp, think, conn)
        ELSE GeneralAnswer(blocks, question)

\* ai.ts:431-433: draw is Math.floor(Math.random() * phrases.length)
randomPhrase(phrases, draw) == phrases[(draw % Len(phrases)) + 1]

\* what the remote completion may answer: choices[0]?.message?.content
RemoteContents ==
    {<<"The todos are in ", Marker("Todo.md"), Marker("Todo.md")>>,
     <<"Here's a note from ", Marker("ghost.md")>>,
     <<"See ", "[File: Todo.md">>,
     <<>>}

\* ai.ts:206
CompletionText(content) == IF content = <<>> THEN <<"No response generated.">> ELSE content

\* ai.ts:555-569: citations are extracted, then the answer is wrapped
Finish(answer, mode, intro) ==
    [answer |-> IF mode = "local" /\ ~StartsConversational(answer)
                THEN <<intro, ", ">> \o LowerText(answer)
                ELSE answer,
     citations |-> Dedupe(ExtractCitations(answer))]

\* ------------------------------------------------------------------------
\* A call of queryVault: its local variables, and where it is suspended.
\*   idle         not called yet
\*   list         await getAllMarkdownFiles           (ai.ts:450, 458)
\*   load         await of the model load             (ai.ts:111-118)
\*   infer        await model(text)                   (ai.ts:170)
\*   remoteEmbed  await openaiClient.embeddings.create (ai.ts:158)
\*   readS        await readFile in the semantic loop (ai.ts:484)
\*   readC        await readFile in context assembly  (ai.ts:524)
\*   completion   await chat.completions.create       (ai.ts:200)
\*   localSynth   await generateText, local branch    (ai.ts:553)
\*   done         returned {answer, citations}
\*   failed       rejected with err
\* Fields n*, embedded (an embedding was requested), loaded (a model load
\* was started), ranker, ctxFailed, complFailed, embFailed (the texts whose
\* embedding request failed) are history: what the call has done so far.
\* ------------------------------------------------------------------------
IdleCall ==
    [pc |-> "idle", query |-> "", hist |-> FALSE, maxContextFiles |-> 0,
     greeting |-> FALSE, allFiles |-> <<>>, stage |-> "none",
     queryEmbedding |-> <<>>, i |-> 0, fileScores |-> <<>>,
     relevantFiles |-> <<>>, ranker |-> "none", j |-> 0, contexts |-> <<>>,
     ctxFailed |-> {}, synthMode |-> "none", complFailed |-> FALSE,
     answer |-> <<>>, citations |-> <<>>, err |-> "none",
     nList |-> 0, nRead |-> 0, nCompl |-> 0, nLocalSynth |-> 0, nLoad |-> 0,
     embedded |-> FALSE, loaded |-> FALSE, embFailed |-> {}]

Fail(s, e) == [s EXCEPT !.pc = "failed", !.err = e]

Return(s, r) == [s EXCEPT !.pc = "done", !.answer = r.answer, !.citations = r.citations]

\* ai.ts:551-553 and generateText up to its first await (ai.ts:198-200)
Synthesize(s) ==
    IF currentMode = "openai"
    THEN IF ~openaiClient
         THEN Fail([s EXCEPT !.synthMode = "openai"], "Failed to query AI")
         ELSE [s EXCEPT !.pc = "completion", !.synthMode = "openai",
                        !.nCompl = @ + 1]
    ELSE [s EXCEPT !.pc = "localSynth", !.synthMode = "local",
                   !.nLocalSynth = @ + 1]

\* ai.ts:522: the head of the context loop
ContextHead(s) ==
    IF s.j <= Len(s.relevantFiles)
    THEN [s EXCEPT !.pc = "readC", !.nRead = @ + 1]
    ELSE Synthesize(s)

\* the nothing-relevant return left out
NothingRelevantCheck_Skipped(s) == ContextHead([s EXCEPT !.j = 1])

\* ai.ts:513-518
NothingRelevantCheck(s) ==
    IF s.relevantFiles = <<>> /\ Substantial(s.query)
    THEN Return(s, [answer |-> NothingRelevantAnswer(s.query), citations |-> <<>>])
    ELSE ContextHead([s EXCEPT !.j = 1])

\* ai.ts:508-510
LexicalFallback(s) ==
    IF s.relevantFiles = <<>> /\ Substantial(s.query)
    THEN IF findRelevantFilesThrows(s.allFiles, s.query)
         THEN Fail(s, "SyntaxError")
         ELSE LET found == Take(findRelevantFiles(s.allFiles, s.query),
                                s.maxContextFiles)
              IN  NothingRelevantCheck(
                      [s EXCEPT !.relevantFiles = found,
                                !.ranker = IF found # <<>> THEN "lexical" ELSE @])
    ELSE NothingRelevantCheck(s)

\* ai.ts:496-500
Rank(s) ==
    LET ranked == RankSemantic(s.fileScores, s.maxContextFiles)
    IN  LexicalFallback([s EXCEPT !.relevantFiles = ranked,
                                  !.ranker = IF ranked # <<>> THEN "semantic" ELSE @])

\* ai.ts:482: the head of the semantic loop over allFiles.slice(0, 30)
LoopHead(s) ==
    IF s.i <= Len(Take(s.allFiles, MaxScan))
    THEN [s EXCEPT !.pc = "readS", !.nRead = @ + 1]
    ELSE Rank(s)

\* getEmbedding returned v to queryVault (v = <<>>: the empty vector)
EmbeddingReturned(s, v) ==
    IF s.stage = "query"
    THEN IF Len(v) > 0
         THEN LoopHead([s EXCEPT !.queryEmbedding = v, !.i = 1])
         ELSE LexicalFallback(s)
    ELSE LoopHead([s EXCEPT
             !.fileScores =
                 IF Len(v) > 0
                 THEN Append(@, [file |-> s.allFiles[s.i],
                                 score |-> cosineSimilarity(s.queryEmbedding, v)])
                 ELSE @,
             !.i = @ + 1])

\* getEmbedding threw: ai.ts:502 catches it for the query, ai.ts:491 for a file
EmbeddingThrew(s) ==
    IF s.stage = "query" THEN LexicalFallback(s)
    ELSE LoopHead([s EXCEPT !.i = @ + 1])

\* getEmbedding choosing the remote provider whenever a client exists
getEmbedding_ClientDecides(s0, stage) ==
    LET s == [s0 EXCEPT !.stage = stage]
    IN  IF openaiClient
        THEN [s EXCEPT !.pc = "remoteEmbed", !.embedded = TRUE]
        ELSE IF embeddingPipeline
             THEN [s EXCEPT !.pc = "infer", !.embedded = TRUE]
             ELSE [s EXCEPT !.pc = "load", !.embedded = TRUE, !.loaded = TRUE,
                        !.nLoad = @ + 1]

\* getEmbedding waiting for a load already in flight, which never wakes it
getEmbedding_AwaitsLoad(s0, stage) ==
    LET s == [s0 EXCEPT !.stage = stage]
    IN  IF currentMode = "openai"
        THEN IF ~openaiClient THEN EmbeddingThrew(s)
             ELSE [s EXCEPT !.pc = "remoteEmbed", !.embedded = TRUE]
        ELSE IF embeddingPipeline
             THEN [s EXCEPT !.pc = "infer", !.embedded = TRUE]
             ELSE IF isModelLoading
                  THEN [s EXCEPT !.pc = "awaitLoad", !.embedded = TRUE]
                  ELSE [s EXCEPT !.pc = "load", !.embedded = TRUE, !.loaded = TRUE,
                             !.nLoad = @ + 1]

\* getEmbedding up to its first await (ai.ts:153-170)
getEmbedding(s0, stage) ==
    LET s == [s0 EXCEPT !.stage = stage]
    IN  IF currentMode = "openai"
        THEN IF ~openaiClient THEN EmbeddingThrew(s)
             ELSE [s EXCEPT !.pc = "remoteEmbed", !.embedded = TRUE]
        ELSE IF embeddingPipeline
             THEN [s EXCEPT !.pc = "infer", !.embedded = TRUE]
             ELSE [s EXCEPT !.pc = "load", !.embedded = TRUE, !.loaded = TRUE,
                        !.nLoad = @ + 1]

\* the text getEmbedding is given
EmbeddedText(s) == IF s.stage = "query" THEN s.query ELSE s.allFiles[s.i]

\* the catch blocks of getEmbedding (ai.ts:163-165, 174-176): the request
\* for the text failed and the empty vector is returned
EmbeddingFailed(s) ==
    EmbeddingReturned([s EXCEPT !.embFailed = @ \cup {EmbeddedText(s)}], <<>>)

\* ai.ts:458-505, after the listing returned
AfterListing(s) ==
    IF Substantial(s.query) THEN getEmbedding(s, "query") ELSE LexicalFallback(s)

\* queryVault without the check of ai.ts:441-443
Enter_Unchecked(s0, query, hist, maxContextFiles) ==
    [s0 EXCEPT !.query = query, !.hist = hist, !.maxContextFiles = maxContextFiles,
               !.pc = "list", !.nList = @ + 1,
               !.greeting = IsGreeting(query) /\ currentMode = "local"]

\* ai.ts:441-458: queryVault up to its first await
Enter(s0, query, hist, maxContextFiles) ==
    LET s == [s0 EXCEPT !.query = query, !.hist = hist,
                        !.maxContextFiles = maxContextFiles]
    IN  IF currentMode = "openai" /\ ~openaiClient
        THEN Fail(s, "OpenAI client not initialized")
        ELSE [s EXCEPT !.pc = "list", !.nList = @ + 1,
                       !.greeting = IsGreeting(query) /\ currentMode = "local"]

\* ------------------------------------------------------------------------
\* Actions
\* ------------------------------------------------------------------------
Running(s) == s.pc \notin {"idle", "done", "failed"}

\* a call resumes and runs to its next await, return or throw
Resume(q, new) == qs' = [qs EXCEPT ![q] = new]

\* ai.ts:101-103
isModelBeingLoaded == isModelLoading

\* ai.ts:109: a call that starts a load sets the flag
LoadingAfter(new) == IF new.pc = "load" THEN TRUE ELSE isModelLoading

\* the mode and the client matter to the calls not yet settled: the model
\* leaves out the changes made after the last call has returned or thrown
Unsettled == \E q \in pool.callers : qs[q].pc \notin {"done", "failed"}

\* ai.ts:72-77
initializeAI(mode) ==
    /\ Unsettled
    /\ openaiClient' = TRUE
    /\ currentMode' = mode
    /\ UNCHANGED <<embeddingPipeline, isModelLoading, modelLoadProgress,
                   vault, pool, calc, qs>>

\* ai.ts:79-87
initializeLocalAI ==
    /\ currentMode' = "local"
    /\ UNCHANGED <<openaiClient, embeddingPipeline, isModelLoading,
                   modelLoadProgress, vault, pool, calc, qs>>

\* a mode switch that discards the memoized model
setAIMode_DropsModel(mode) ==
    /\ Unsettled
    /\ currentMode' = mode
    /\ embeddingPipeline' = FALSE
    /\ UNCHANGED <<openaiClient, isModelLoading, modelLoadProgress,
                   vault, pool, calc, qs>>

\* ai.ts:89-91
setAIMode(mode) ==
    /\ Unsettled
    /\ currentMode' = mode
    /\ UNCHANGED <<openaiClient, embeddingPipeline, isModelLoading,
                   modelLoadProgress, vault, pool, calc, qs>>

\* ai.ts:435-458
queryVault(q, query, hist, maxContextFiles) ==
    /\ qs[q].pc = "idle"
    /\ q \in pool.callers
    /\ Resume(q, Enter(qs[q], query, hist, maxContextFiles))
    /\ UNCHANGED <<globals, vault, pool, calc>>

\* getAllMarkdownFiles resolves (ai.ts:450-455 or 458-518)
ListReturn(q) ==
    /\ qs[q].pc = "list"
    /\ LET s == [qs[q] EXCEPT !.allFiles = vault]
           new == IF s.greeting
                  THEN Return(s, [answer |-> GreetingAnswer(Len(vault)),
                                  citations |-> <<>>])
                  ELSE AfterListing(s)
       IN  /\ Resume(q, new)
           /\ isModelLoading' = LoadingAfter(new)
    /\ UNCHANGED <<currentMode, openaiClient, embeddingPipeline,
                   modelLoadProgress, vault, pool, calc>>

\* readDirectory rejects: queryVault has no handler around the listing
ListFail(q) ==
    /\ qs[q].pc = "list"
    /\ Resume(q, Fail(qs[q], "readDirectory failed"))
    /\ UNCHANGED <<globals, vault, pool, calc>>

EmbeddingShare == 50

\* ai.ts:113-117: the loader's progress callback
LoadProgress(q, progress) ==
    /\ qs[q].pc = "load"
    /\ modelLoadProgress' = progress * EmbeddingShare
    /\ UNCHANGED <<currentMode, openaiClient, embeddingPipeline, isModelLoading,
                   vault, pool, calc, qs>>

\* ai.ts:112-121, then ai.ts:170
LoadComplete(q) ==
    /\ qs[q].pc = "load"
    /\ embeddingPipeline' = TRUE
    /\ isModelLoading' = FALSE
    /\ modelLoadProgress' = EmbeddingShare
    /\ Resume(q, [qs[q] EXCEPT !.pc = "infer"])
    /\ UNCHANGED <<currentMode, openaiClient, vault, pool, calc>>

\* a failed load that leaves the loading flag set
LoadFail_Sticky(q) ==
    /\ qs[q].pc = "load"
    /\ Resume(q, EmbeddingFailed(qs[q]))
    /\ UNCHANGED <<currentMode, openaiClient, embeddingPipeline, isModelLoading,
                   modelLoadProgress, vault, pool, calc>>

\* ai.ts:122-125, then ai.ts:174-176
LoadFail(q) ==
    /\ qs[q].pc = "load"
    /\ isModelLoading' = FALSE
    /\ Resume(q, EmbeddingFailed(qs[q]))
    /\ UNCHANGED <<currentMode, openaiClient, embeddingPipeline,
                   modelLoadProgress, vault, pool, calc>>

\* ai.ts:170-173
InferReturn(q) ==
    /\ qs[q].pc = "infer"
    /\ Resume(q, EmbeddingReturned(qs[q], LocalVector(EmbeddedText(qs[q]))))
    /\ UNCHANGED <<globals, vault, pool, calc>>

\* ai.ts:174-176
InferFail(q) ==
    /\ qs[q].pc = "infer"
    /\ Resume(q, EmbeddingFailed(qs[q]))
    /\ UNCHANGED <<globals, vault, pool, calc>>

\* ai.ts:158-162
RemoteEmbedReturn(q) ==
    /\ qs[q].pc = "remoteEmbed"
    /\ Resume(q, EmbeddingReturned(qs[q], RemoteVector(EmbeddedText(qs[q]))))
    /\ UNCHANGED <<globals, vault, pool, calc>>

\* ai.ts:163-165
RemoteEmbedFail(q) ==
    /\ qs[q].pc = "remoteEmbed"
    /\ Resume(q, EmbeddingFailed(qs[q]))
    /\ UNCHANGED <<globals, vault, pool, calc>>

\* ai.ts:484-486
ReadSReturn(q) ==
    /\ qs[q].pc = "readS"
    /\ LET new == getEmbedding(qs[q], "file")
       IN  /\ Resume(q, new)
           /\ isModelLoading' = LoadingAfter(new)
    /\ UNCHANGED <<currentMode, openaiClient, embeddingPipeline,
                   modelLoadProgress, vault, pool, calc>>

\* ai.ts:491-493
ReadSFail(q) ==
    /\ qs[q].pc = "readS"
    /\ Resume(q, LoopHead([qs[q] EXCEPT !.i = @ + 1]))
    /\ UNCHANGED <<globals, vault, pool, calc>>

\* ai.ts:524-525
ReadCReturn(q) ==
    /\ qs[q].pc = "readC"
    /\ Resume(q, ContextHead([qs[q] EXCEPT
                     !.contexts = Append(@, qs[q].relevantFiles[qs[q].j]),
                     !.j = @ + 1]))
    /\ UNCHANGED <<globals, vault, pool, calc>>

\* a failed read rethrown instead of logged
ReadCFail_Abort(q) ==
    /\ qs[q].pc = "readC"
    /\ Resume(q, Fail(qs[q], "readFile failed"))
    /\ UNCHANGED <<globals, vault, pool, calc>>

\* ai.ts:526-528
ReadCFail(q) ==
    /\ qs[q].pc = "readC"
    /\ Resume(q, ContextHead([qs[q] EXCEPT
                     !.ctxFailed = @ \cup {qs[q].relevantFiles[qs[q].j]},
                     !.j = @ + 1]))
    /\ UNCHANGED <<globals, vault, pool, calc>>

\* ai.ts:206, 555-569
CompletionReturn(q, content, r) ==
    /\ qs[q].pc = "completion"
    /\ Resume(q, Return(qs[q], Finish(CompletionText(content), currentMode,
                                      randomPhrase(PERSONA.introPhrases, r))))
    /\ UNCHANGED <<globals, vault, pool, calc>>

\* a failed completion answered by the local synthesizer instead
CompletionFail_Fallback(q) ==
    /\ qs[q].pc = "completion"
    /\ Resume(q, [qs[q] EXCEPT !.complFailed = TRUE, !.pc = "localSynth",
                               !.nLocalSynth = @ + 1])
    /\ UNCHANGED <<globals, vault, pool, calc>>

\* ai.ts:570-573
CompletionFail(q) ==
    /\ qs[q].pc = "completion"
    /\ Resume(q, Fail([qs[q] EXCEPT !.complFailed = TRUE], "Failed to query AI"))
    /\ UNCHANGED <<globals, vault, pool, calc>>

\* ai.ts:207-404, 555-569
LocalSynthReturn(q, r1, r2, r3) ==
    /\ qs[q].pc = "localSynth"
    /\ Resume(q, Return(qs[q],
                  Finish(generateTextLocal(qs[q].contexts, qs[q].query, qs[q].hist,
                                           randomPhrase(PERSONA.thinkingPhrases, r1),
                                           randomPhrase(PERSONA.connectorPhrases, r2)),
                         currentMode, randomPhrase(PERSONA.introPhrases, r3))))
    /\ UNCHANGED <<globals, vault, pool, calc>>

\* ------------------------------------------------------------------------
\* Specifications
\* ------------------------------------------------------------------------
DefaultMaxContextFiles == 5

Input(query, hist, maxContextFiles) ==
    [query |-> query, hist |-> hist, maxContextFiles |-> maxContextFiles]

\* the calls of the model: every query, with and without a conversation
\* history, with the default and with a smaller maxContextFiles
Inputs ==
    {Input(q, FALSE, DefaultMaxContextFiles) : q \in AllQueries}
    \cup {Input("list my todos", TRUE, 2), Input("summarize todo", FALSE, 2)}

\* no pure function is being called
NoCalc == [op |-> "none"]

InitGlobals ==
    /\ currentMode = "local"
    /\ openaiClient = FALSE
    /\ embeddingPipeline = FALSE
    /\ isModelLoading = FALSE
    /\ modelLoadProgress = 0
    /\ qs = [q \in Callers |-> IdleCall]

\* one call of queryVault with any input, on any vault
Init ==
    /\ InitGlobals
    /\ calc = NoCalc
    /\ vault \in Vaults
    /\ pool = [callers |-> {"q1"}, inputs |-> Inputs, draws |-> {0, 2},
               contents |-> RemoteContents, reports |-> {100}]

\* two concurrent calls of queryVault
InitConc ==
    /\ InitGlobals
    /\ calc = NoCalc
    /\ vault \in {v \in Vaults : Len(v) <= 1}
    /\ pool = [callers |-> Callers, inputs |-> {Input("list my todos", FALSE, DefaultMaxContextFiles)},
               draws |-> {2},
               contents |-> {<<"The todos are in ", Marker("Todo.md")>>, <<>>},
               reports |-> {0, 100}]

Next ==
    \/ \E m \in Modes : initializeAI(m)
    \/ initializeLocalAI
    \/ \E m \in Modes : setAIMode(m)
    \/ \E q \in Callers, in \in pool.inputs :
          queryVault(q, in.query, in.hist, in.maxContextFiles)
    \/ \E q \in Callers : ListReturn(q)
    \/ \E q \in Callers : ListFail(q)
    \/ \E q \in Callers, p \in pool.reports : LoadProgress(q, p)
    \/ \E q \in Callers : LoadComplete(q)
    \/ \E q \in Callers : LoadFail(q)
    \/ \E q \in Callers : InferReturn(q)
    \/ \E q \in Callers : InferFail(q)
    \/ \E q \in Callers : RemoteEmbedReturn(q)
    \/ \E q \in Callers : RemoteEmbedFail(q)
    \/ \E q \in Callers : ReadSReturn(q)
    \/ \E q \in Callers : ReadSFail(q)
    \/ \E q \in Callers : ReadCReturn(q)
    \/ \E q \in Callers : ReadCFail(q)
    \/ \E q \in Callers, c \in pool.contents, r \in pool.draws :
          CompletionReturn(q, c, r)
    \/ \E q \in Callers : CompletionFail(q)
    \/ \E q \in Callers, r1 \in pool.draws, r2 \in pool.draws, r3 \in pool.draws :
          LocalSynthReturn(q, r1, r2, r3)

Spec == Init /\ [][Next]_vars

SpecConc == InitConc /\ [][Next]_vars

\* the collaborator call that q is suspended on returns or fails (the local
\* synthesis is a computation of the call itself: it returns)
Settle(q) ==
    \/ ListReturn(q) \/ ListFail(q)
    \/ LoadComplete(q) \/ LoadFail(q)
    \/ InferReturn(q) \/ InferFail(q)
    \/ RemoteEmbedReturn(q) \/ RemoteEmbedFail(q)
    \/ ReadSReturn(q) \/ ReadSFail(q)
    \/ ReadCReturn(q) \/ ReadCFail(q)
    \/ \E c \in pool.contents, r \in pool.draws : CompletionReturn(q, c, r)
    \/ CompletionFail(q)
    \/ \E r1 \in pool.draws, r2 \in pool.draws, r3 \in pool.draws :
          LocalSynthReturn(q, r1, r2, r3)

\* q is suspended on a collaborator call: the states where Settle(q) is
\* enabled, every Settle(q) step changing qs[q]
Suspended(q) ==
    qs[q].pc \in {"list", "load", "infer", "remoteEmbed", "readS", "readC",
                  "completion", "localSynth"}

\* weak fairness of Settle(q), that is WF_vars(Settle(q)) with
\* ENABLED <<Settle(q)>>_vars written as the state predicate Suspended(q):
\* a call is not suspended for ever on a collaborator call
SettleFair(q) == []<>(~Suspended(q)) \/ []<><<Settle(q)>>_vars

\* two concurrent calls whose collaborator calls all settle in the end
SpecConcLive == InitConc /\ [][Next]_vars /\ \A q \in Callers : SettleFair(q)

\* ------------------------------------------------------------------------
\* A vault of one document more than the semantic loop scans.  One call in
\* local mode; of the failures of the environment only the failure of the
\* model load is taken.
\* ------------------------------------------------------------------------
Filler(k) == "a" \o (IF k < 10 THEN "0" ELSE "") \o ToString(k) \o ".md"

\* a01.md .. a30.md, Todo.md: the order of readDirectory
BigVault == [k \in 1..(MaxScan + 1) |-> IF k <= MaxScan THEN Filler(k) ELSE "Todo.md"]

InitBig ==
    /\ InitGlobals
    /\ calc = NoCalc
    /\ vault = BigVault
    /\ pool = [callers |-> {"q1"},
               inputs |-> {Input("summarize todo", FALSE, DefaultMaxContextFiles),
                           Input("list my todos", FALSE, DefaultMaxContextFiles)},
               draws |-> {0}, contents |-> {}, reports |-> {}]

NextBig ==
    \/ \E q \in Callers, in \in pool.inputs :
          queryVault(q, in.query, in.hist, in.maxContextFiles)
    \/ \E q \in Callers : ListReturn(q)
    \/ \E q \in Callers : LoadComplete(q)
    \/ \E q \in Callers : LoadFail(q)
    \/ \E q \in Callers : InferReturn(q)
    \/ \E q \in Callers : ReadSReturn(q)
    \/ \E q \in Callers : ReadCReturn(q)
    \/ \E q \in Callers, r1 \in pool.draws, r2 \in pool.draws, r3 \in pool.draws :
          LocalSynthReturn(q, r1, r2, r3)

SpecBig == InitBig /\ [][NextBig]_vars

\* ------------------------------------------------------------------------
\* The pure functions of the module, called on their own: calc holds the
\* function called (op), its arguments (in) and, once it has returned
\* (done), its result (out).
\* ------------------------------------------------------------------------
MaxCands == 3

Call(op, in) == [op |-> op, in |-> in, out |-> <<>>, done |-> FALSE]

Returns(op, out) ==
    /\ calc.op = op
    /\ ~calc.done
    /\ calc' = [calc EXCEPT !.out = out, !.done = TRUE]
    /\ UNCHANGED <<globals, vault, pool, qs>>

\* the path of the k-th candidate
CandFile(k) == IF k <= Len(AllDocs) THEN AllDocs[k] ELSE "doc" \o ToString(k) \o ".md"

\* similarities a candidate may have: 1, 0.5 (written in two ways), 0.31,
\* 0.3, 0, -0.5 and NaN
Scores ==
    {[num |-> 1, den2 |-> 1], [num |-> 1, den2 |-> 4], [num |-> 2, den2 |-> 16],
     [num |-> 31, den2 |-> 10000], [num |-> 3, den2 |-> 100], [num |-> 0, den2 |-> 1],
     [num |-> -1, den2 |-> 4], [num |-> 0, den2 |-> 0]}

\* the scored candidates of ai.ts:481-494, in enumeration order
FileScores ==
    UNION {{[k \in 1..n |-> [file |-> CandFile(k), score |-> sc[k]]] :
               sc \in [1..n -> Scores]} : n \in 0..MaxCands}

RankSemanticCalls ==
    {Call("RankSemantic", [fileScores |-> fs, maxContextFiles |-> m]) :
        fs \in FileScores, m \in {0, 1, 2, DefaultMaxContextFiles}}

\* ai.ts:496-500
RankSemanticReturns ==
    Returns("RankSemantic",
            RankSemantic(calc.in.fileScores, calc.in.maxContextFiles))

\* lower-cased paths and keyword lists for the scoring callback of
\* findRelevantFiles (ai.ts:599-612)
LexicalScoreCalls ==
    {Call("LexicalScore", [fileLower |-> f, keywords |-> ks]) :
        f \in {"todo.md", "todo-todo.md", "notes.md"},
        ks \in {<<>>, <<"todo">>, <<"todo", "todo">>, <<"summarize", "todo">>,
                <<"notes", "todo">>}}

LexicalScoreReturns ==
    Returns("LexicalScore", LexicalScore(calc.in.fileLower, calc.in.keywords))

\* listings of at most two of three paths, and queries
findRelevantFilesCalls ==
    LET paths == {"Todo.md", "todo-todo.md", "notes.md"}
        listings == {<<>>} \cup {<<f>> : f \in paths}
                    \cup {fg \in paths \X paths : fg[1] # fg[2]}
    IN  {Call("findRelevantFiles", [files |-> fs, query |-> q]) :
            fs \in listings, q \in {"summarize todo", "list my todos", "todo todo"}}

findRelevantFilesReturns ==
    Returns("findRelevantFiles", findRelevantFiles(calc.in.files, calc.in.query))

MaxTokens == 3

\* answers of at most MaxTokens tokens: text, complete markers and a marker
\* that is not closed
Answers ==
    LET tokens == {"See ", Marker("Todo.md"), Marker("notes.md"),
                   OpenMarker("Todo.md")}
    IN  UNION {[1..n -> tokens] : n \in 0..MaxTokens}

\* the citations queryVault returns for an answer (ai.ts:555-561, 569)
citationsCalls == {Call("citations", [answer |-> a]) : a \in Answers}

citationsReturns ==
    Returns("citations", Finish(calc.in.answer, "openai", "").citations)

MaxDim == 2

\* vectors of at most MaxDim components
Vectors == UNION {[1..n -> {-1, 0, 1}] : n \in 0..MaxDim}

cosineSimilarityCalls ==
    {Call("cosineSimilarity", [a |-> a, b |-> b]) : a \in Vectors, b \in Vectors}

cosineSimilarityReturns ==
    Returns("cosineSimilarity", cosineSimilarity(calc.in.a, calc.in.b))

\* questions that match one, two or none of the intent families
Questions ==
    {"summarize todo", "list my todos", "summarize my list", "what is in todo",
     "what does todo contain", "what does my list contain", "milk today"}

\* the local synthesizer on a context of one or two documents
generateTextCalls ==
    {Call("generateText", [blocks |-> b, query |-> q, followUp |-> f]) :
        b \in {<<"Todo.md">>, <<"random.md">>, <<"Todo.md", "notes.md">>},
        q \in Questions, f \in BOOLEAN}
    \cup {Call("generateText", [blocks |-> b, query |-> "milk today", followUp |-> f]) :
             b \in {<<>>, <<"random.md", "notes.md">>}, f \in BOOLEAN}

generateTextReturns ==
    Returns("generateText",
            generateTextLocal(calc.in.blocks, calc.in.query, calc.in.followUp,
                              randomPhrase(PERSONA.thinkingPhrases, 0),
                              randomPhrase(PERSONA.connectorPhrases, 0)))

\* a conversation history argument: absent (undefined) or a list of messages
NoHistory == [present |-> FALSE, msgs |-> <<>>]

History(msgs) == [present |-> TRUE, msgs |-> msgs]

\* the last n elements of a sequence (Array.prototype.slice(-n))
Last(seq, n) ==
    IF Len(seq) <= n THEN seq ELSE SubSeq(seq, Len(seq) - n + 1, Len(seq))

\* the messages of the history that are quoted (ai.ts:464, 541)
RecentMessages == 4

\* one line per recent message (ai.ts:464-466, 541)
recentContext(history) ==
    LET recent == Last(history.msgs, RecentMessages)
    IN  [k \in 1..Len(recent) |->
            (IF recent[k].role = "user" THEN "User" ELSE "Assistant")
            \o ": " \o recent[k].content]

\* ai.ts:461-468, as the pieces of the text
enhancedQuery(query, history) ==
    IF history.present /\ Len(history.msgs) > 0
    THEN <<query, "\n\nPrevious conversation:\n">> \o recentContext(history)
    ELSE <<query>>

\* ai.ts:477: the text whose embedding ranks the candidates
queryForEmbedding(query, history) ==
    IF history.present THEN <<query>> ELSE enhancedQuery(query, history)

\* ai.ts:531-534: per document read, its path and the characters of its
\* content put in the prompt; a document is given by its path and its length
contextText(contexts) ==
    [k \in 1..Len(contexts) |->
        [file |-> contexts[k].file, chars |-> contexts[k].chars]]

\* ai.ts:536-549: the prompt by its parts: the context, the question, the
\* quoted history and the instruction
userPrompt(contexts, query, history, mode) ==
    IF mode = "local"
    THEN [context |-> contextText(contexts), question |-> query,
          history |-> IF history.present /\ Len(history.msgs) > 0
                      THEN recentContext(history) ELSE <<>>,
          instruction |-> "based ONLY on the context above"]
    ELSE [context |-> contextText(contexts), question |-> query,
          history |-> <<>>,
          instruction |-> "based on the context above"]

\* ai.ts:195-204: what the completion provider is sent
CompletionRequest(prompt) == [messages |-> <<[role |-> "user", content |-> prompt]>>]

\* histories of alternating messages, and the absent history
Histories ==
    LET msg(k) == IF k % 2 = 1
                  THEN [role |-> "user", content |-> "where is todo " \o ToString(k)]
                  ELSE [role |-> "assistant", content |-> "in Todo.md " \o ToString(k)]
    IN  {NoHistory} \cup {History([k \in 1..n |-> msg(k)]) : n \in 0..(RecentMessages + 1)}

\* contexts of at most two documents, of lengths around the 2000 characters
\* an earlier queryVault kept of a document
ReadContexts ==
    UNION {{[k \in 1..n |-> [file |-> CandFile(k), chars |-> sz[k]]] :
               sz \in [1..n -> {300, 2000, 2001}]} : n \in 0..2}

queryForEmbeddingCalls ==
    {Call("queryForEmbedding", [query |-> q, history |-> h]) :
        q \in {"list my todos", "and the notes"}, h \in Histories}

queryForEmbeddingReturns ==
    Returns("queryForEmbedding", queryForEmbedding(calc.in.query, calc.in.history))

userPromptCalls ==
    {Call("userPrompt", [contexts |-> c, query |-> "and the notes", history |-> h,
                         mode |-> m]) :
        c \in ReadContexts, h \in Histories, m \in Modes}

userPromptReturns ==
    Returns("userPrompt",
            userPrompt(calc.in.contexts, calc.in.query, calc.in.history, calc.in.mode))

PureCalls ==
    RankSemanticCalls \cup LexicalScoreCalls \cup findRelevantFilesCalls
    \cup citationsCalls \cup cosineSimilarityCalls \cup generateTextCalls
    \cup queryForEmbeddingCalls \cup userPromptCalls

InitPure ==
    /\ InitGlobals
    /\ vault = <<>>
    /\ pool = [callers |-> {}, inputs |-> {}, draws |-> {}, contents |-> {},
               reports |-> {}]
    /\ calc \in PureCalls

NextPure ==
    \/ RankSemanticReturns
    \/ LexicalScoreReturns
    \/ findRelevantFilesReturns
    \/ citationsReturns
    \/ cosineSimilarityReturns
    \/ generateTextReturns
    \/ queryForEmbeddingReturns
    \/ userPromptReturns

SpecPure == InitPure /\ [][NextPure]_vars

\* ------------------------------------------------------------------------
\* Properties
\* ------------------------------------------------------------------------
ConfigError == "OpenAI client not initialized"
ListError == "readDirectory failed"
SynthesisError == "Failed to query AI"

\* the call q takes a step
Steps(q) == qs'[q] # qs[q]

\* C1: a call that starts while the mode is remote and no client is
\* configured fails with the configuration error, having listed no document,
\* read none, and requested no embedding and no completion; and it stays so.
C1_ConfigurationErrorFirst ==
    [][\A q \in Callers :
          /\ (qs[q].pc = "idle" /\ Steps(q) /\ currentMode = "openai" /\ ~openaiClient)
                => /\ qs'[q].pc = "failed"
                   /\ qs'[q].err = ConfigError
          /\ (qs'[q].pc = "failed" /\ qs'[q].err = ConfigError)
                => /\ qs'[q].nList = 0 /\ qs'[q].nRead = 0
                   /\ ~qs'[q].embedded /\ ~qs'[q].loaded
                   /\ qs'[q].nCompl = 0 /\ qs'[q].nLocalSynth = 0]_vars

C1_Witness ==
    \E q \in Callers : qs[q].pc = "failed" /\ qs[q].err = ConfigError

\* C2: whenever a call issues a request to the remote provider (an embedding
\* or a completion request), the mode is remote and a client is configured
\* at that moment; so a call during which the mode is local throughout
\* issues none.
C2_RemoteOnlyWhenOptedIn ==
    [][\A q \in Callers :
          (Steps(q) /\ qs'[q].pc \in {"remoteEmbed", "completion"})
             => (currentMode = "openai" /\ openaiClient)]_vars

C2_Witness ==
    \E q \in Callers : qs[q].pc = "completion" /\ qs[q].embedded
                       /\ qs[q].contexts # <<>>

\* the calls waiting in loadEmbeddingModel for pipeline(...) to settle
LoadsInFlight == Cardinality({q \in Callers : qs[q].pc = "load"})

\* C3: at most one embedding-model load is in flight at any time, however
\* many calls run concurrently.
C3_SingleLoadInFlight == LoadsInFlight <= 1

\* C4: in local mode, an enumerate-intent query whose retrieval selects
\* exactly one document, a document with bullet lines, returns citations
\* equal to that document's path and an answer with one of its bullet lines.
C4_ScenarioA ==
    \A q \in Callers :
        (/\ qs[q].pc = "done"
         /\ qs[q].synthMode = "local"
         /\ MatchesEnumerate(Trim(qs[q].query))
         /\ Len(qs[q].relevantFiles) = 1
         /\ qs[q].contexts = qs[q].relevantFiles
         /\ \E l \in Range(DocLines(qs[q].relevantFiles[1])) : IsListLine(l))
        => /\ qs[q].citations = qs[q].relevantFiles
           /\ \E l \in Range(DocLines(qs[q].relevantFiles[1])) :
                 IsListLine(l) /\ l \in Range(qs[q].answer)

\* C5: every citation of a result occurs in the returned answer verbatim as
\* the marker "[File: c]".
C5_CitationsVerbatim ==
    \A q \in Callers :
        qs[q].pc = "done"
        => \A k \in 1..Len(qs[q].citations) :
               Marker(qs[q].citations[k]) \in Range(qs[q].answer)

ShortCircuit(s) ==
    /\ s.pc \in {"list", "done", "failed"}
    /\ s.nRead = 0 /\ ~s.embedded /\ ~s.loaded /\ s.nCompl = 0 /\ s.nLocalSynth = 0
    /\ s.pc = "done" => /\ s.answer = GreetingAnswer(Len(vault))
                        /\ s.citations = <<>>
    /\ s.pc = "failed" => s.err = ListError

\* C7: a call that starts in local mode with a query that trims to a
\* greeting token takes the short-circuit: it only lists the vault, reads no
\* document, requests no embedding, starts no model load and no synthesis,
\* and returns the welcome stating the number of documents, with no citation.
C7_GreetingShortCircuit ==
    [][\A q \in Callers :
          /\ (qs[q].pc = "idle" /\ Steps(q) /\ currentMode = "local"
              /\ LowerQ(Trim(qs'[q].query)) \in GreetingTokens)
                => qs'[q].greeting
          /\ qs'[q].greeting => ShortCircuit(qs'[q])]_vars

C7_Witness ==
    \E q \in Callers :
        /\ qs[q].pc = "done" /\ qs[q].query = "Hey " /\ Len(vault) = 1
        /\ qs[q].answer = GreetingAnswer(1)

\* C8: a query past the mode check and the greeting short-circuit, for which
\* ranking is attempted, never fails in ranking; when neither ranker yields
\* a candidate it returns the nothing-relevant message and no citation.
C8_RankingNeverRaises ==
    \A q \in Callers :
        (Substantial(qs[q].query) /\ ~qs[q].greeting)
        => /\ qs[q].pc = "failed"
              => qs[q].err \in {ConfigError, ListError, SynthesisError}
           /\ (qs[q].pc \in {"readC", "completion", "localSynth", "done"}
               /\ qs[q].relevantFiles = <<>>)
              => /\ qs[q].pc = "done"
                 /\ qs[q].answer = NothingRelevantAnswer(qs[q].query)
                 /\ qs[q].citations = <<>>

\* C9: when the completion request of a call fails, the call fails with the
\* synthesis error; it has issued exactly one completion request and has not
\* run the local synthesizer, and returns no answer.
C9_CompletionFailureSurfaces ==
    \A q \in Callers :
        /\ qs[q].complFailed
              => /\ qs[q].pc = "failed" /\ qs[q].err = SynthesisError
                 /\ qs[q].nCompl = 1 /\ qs[q].nLocalSynth = 0
                 /\ qs[q].answer = <<>>
        /\ qs[q].nCompl + qs[q].nLocalSynth <= 1

C9_Witness ==
    \E q \in Callers : qs[q].complFailed /\ qs[q].contexts # <<>>

\* the context holds the ranked documents read so far, less the failed ones
Assembled(s) ==
    s.contexts = SelectSeq(SubSeq(s.relevantFiles, 1, s.j - 1),
                           LAMBDA f : f \notin s.ctxFailed)

\* C10: a failed read in context assembly drops that document alone: the
\* context is the ranked documents whose read succeeded, in rank order, and
\* the step after a read (failed or not) is the next read or the synthesis.
C10_ReadFailureDropsOne ==
    [][\A q \in Callers :
          /\ (qs[q].pc = "readC" /\ Steps(q))
                => /\ qs'[q].j = qs[q].j + 1
                   /\ \/ qs'[q].pc \in {"readC", "completion", "localSynth"}
                      \/ qs'[q].pc = "failed" /\ qs'[q].err = SynthesisError
                         /\ currentMode = "openai" /\ ~openaiClient
          /\ qs'[q].j > 0 => Assembled(qs'[q])
          /\ qs'[q].synthMode # "none" => qs'[q].j = Len(qs'[q].relevantFiles) + 1]_vars

C10_Witness ==
    \E q \in Callers :
        /\ qs[q].pc = "done" /\ qs[q].ctxFailed # {}
        /\ Len(qs[q].contexts) >= 2 /\ qs[q].answer # <<>>

\* C11: a failed embedding request never makes the call fail (after one, a
\* call fails only if the synthesis fails); when the request for the query
\* failed no similarity is computed and the semantic ranker selects nothing;
\* a document whose request failed has no entry among the scored candidates.
C11_EmbeddingFailureDegrades ==
    \A q \in Callers :
        /\ (qs[q].embFailed # {} /\ qs[q].pc = "failed")
              => qs[q].err = SynthesisError
        /\ qs[q].query \in qs[q].embFailed
              => /\ qs[q].queryEmbedding = <<>> /\ qs[q].fileScores = <<>>
                 /\ qs[q].ranker # "semantic"
        /\ \A k \in 1..Len(qs[q].fileScores) :
              qs[q].fileScores[k].file \notin qs[q].embFailed

\* C12: once the embedding model is memoized it stays memoized, and from
\* then on no call enters a model load: an embedding requested later (by
\* the same or a later query, after any mode switch or initialize call)
\* goes straight to inference.
C12_ReadyStaysReady ==
    [][embeddingPipeline
         => /\ embeddingPipeline'
            /\ \A q \in Callers :
                  /\ qs'[q].pc = "load" => qs[q].pc = "load"
                  /\ qs'[q].loaded = qs[q].loaded]_vars

C12_Witness ==
    /\ embeddingPipeline
    /\ qs["q1"].pc = "done" /\ qs["q1"].loaded
    /\ qs["q2"].pc = "infer" /\ ~qs["q2"].loaded

\* C13: in every reachable state the load progress that
\* getModelLoadingProgress returns lies between 0 and 100 inclusive, the
\* loader's progress callback reporting values in 0..100.
C13_ProgressWithinRange == modelLoadProgress \in 0..100

\* C14: two calls with the same query, history and maxContextFiles, on the
\* same listing, synthesized in the same mode, with the same embedding
\* results, the same ranking and the same documents read, return the same
\* citations, whatever phrases are drawn.
C14_IdempotentCitations ==
    LET a == qs["q1"]
        b == qs["q2"]
    IN  (/\ a.pc = "done" /\ b.pc = "done"
         /\ a.query = b.query /\ a.hist = b.hist
         /\ a.maxContextFiles = b.maxContextFiles
         /\ a.allFiles = b.allFiles /\ a.greeting = b.greeting
         /\ a.synthMode = b.synthMode
         /\ a.queryEmbedding = b.queryEmbedding /\ a.fileScores = b.fileScores
         /\ a.relevantFiles = b.relevantFiles /\ a.contexts = b.contexts)
        => a.citations = b.citations

\* the result of the semantic ranking that calc holds, as indices into the
\* scored candidates
RankedIndex(p) ==
    CHOOSE k \in 1..Len(calc.in.fileScores) :
        calc.in.fileScores[k].file = calc.out[p]

\* candidate k sorts before candidate m: greater similarity, or the same
\* similarity and enumerated earlier
SortsBefore(k, m) ==
    LET sk == calc.in.fileScores[k].score
        sm == calc.in.fileScores[m].score
    IN  ScoreGreater(sk, sm) \/ (~ScoreGreater(sm, sk) /\ k < m)

\* C15: the semantic ranking consists of candidates whose similarity is
\* strictly greater than 0.3, each once; it holds min(maxContextFiles,
\* number of such candidates) of them; it is in descending order of
\* similarity with ties in enumeration order; and a candidate above 0.3 that
\* was left out sorts after every candidate kept.
C15_SemanticRanking ==
    (calc.op = "RankSemantic" /\ calc.done)
    => LET fs == calc.in.fileScores
           out == calc.out
           above == {k \in 1..Len(fs) : AboveThreshold(fs[k].score)}
           kept == {RankedIndex(p) : p \in 1..Len(out)}
       IN  /\ \A p \in 1..Len(out) : \E k \in above : fs[k].file = out[p]
           /\ Cardinality(kept) = Len(out)
           /\ Len(out) = Min(calc.in.maxContextFiles, Cardinality(above))
           /\ \A p1, p2 \in 1..Len(out) :
                 p1 < p2 => SortsBefore(RankedIndex(p1), RankedIndex(p2))
           /\ \A k \in above \ kept : \A m \in kept : SortsBefore(m, k)

C15_Witness ==
    /\ calc.op = "RankSemantic" /\ calc.done
    /\ calc.in.maxContextFiles = 2
    /\ Len(calc.in.fileScores) = 3
    /\ calc.in.fileScores[1].score = [num |-> 1, den2 |-> 4]
    /\ calc.in.fileScores[2].score = [num |-> 1, den2 |-> 1]
    /\ calc.in.fileScores[3].score = [num |-> 2, den2 |-> 16]
    /\ calc.out = <<CandFile(2), CandFile(1)>>

\* C16: a document that is not among the first 30 of the listing is never
\* considered by a call: it is not read in the semantic loop, has no entry
\* among the scored candidates, is not ranked by either ranker, and is
\* neither read for nor part of the assembled context.
C16_ScanCapRespected ==
    \A q \in Callers :
        \A k \in 1..Len(qs[q].allFiles) :
            k > MaxScan
            => LET f == qs[q].allFiles[k]
               IN  /\ ~(qs[q].pc = "readS" /\ qs[q].i = k)
                   /\ \A n \in 1..Len(qs[q].fileScores) : qs[q].fileScores[n].file # f
                   /\ f \notin Range(qs[q].relevantFiles)
                   /\ f \notin Range(qs[q].contexts)
                   /\ f \notin qs[q].ctxFailed

\* the score the specification gives a path: per distinct word, 10 points
\* if it occurs and 2 points for each occurrence after the first
RECURSIVE ScoreAsSpecified(_, _)
ScoreAsSpecified(fileLower, words) ==
    IF words = <<>> THEN 0
    ELSE (LET n == Occurrences(fileLower, Head(words))
          IN  IF n > 0 THEN IncludePoints + (n - 1) * OccurrencePoints ELSE 0)
         + ScoreAsSpecified(fileLower, Tail(words))

\* C17: the lexical ranker scores a path by summing, over the distinct query
\* words longer than 2 characters, 10 points if the word occurs in the
\* lower-cased path plus 2 points per occurrence after the first; it returns
\* exactly the paths that score above 0, in descending order of score.
C17_LexicalScoring ==
    /\ (calc.op = "LexicalScore" /\ calc.done)
          => calc.out = ScoreAsSpecified(calc.in.fileLower, Dedupe(calc.in.keywords))
    /\ (calc.op = "findRelevantFiles" /\ calc.done)
          => LET score(f) == ScoreAsSpecified(LowerPath(f),
                                              Dedupe(Keywords(calc.in.query)))
             IN  /\ Range(calc.out) = {f \in Range(calc.in.files) : score(f) > 0}
                 /\ \A p1, p2 \in 1..Len(calc.out) :
                       p1 < p2 => score(calc.out[p1]) >= score(calc.out[p2])

\* where the complete marker of a name first occurs in the answer calc holds
FirstMarker(name) ==
    CHOOSE k \in 1..Len(calc.in.answer) :
        /\ calc.in.answer[k] = Marker(name)
        /\ \A m \in 1..(k - 1) : calc.in.answer[m] # Marker(name)

\* C18: the citations of an answer are exactly the names of the complete
\* "[File: name]" markers in it, each once, in the order of their first
\* occurrence; an answer with no marker, or with none that is closed, has
\* no citations.
C18_CitationExtraction ==
    (calc.op = "citations" /\ calc.done)
    => LET text == calc.in.answer
           out == calc.out
       IN  /\ Range(out) = {MarkerName(text[k]) :
                               k \in {m \in 1..Len(text) : IsMarker(text[m])}}
           /\ \A p1, p2 \in 1..Len(out) : p1 # p2 => out[p1] # out[p2]
           /\ \A p1, p2 \in 1..Len(out) :
                 p1 < p2 => FirstMarker(out[p1]) < FirstMarker(out[p2])

\* two similarities are the same number (NaN, the result for a vector of
\* norm 0, is taken as the same result as NaN)
SameScore(s, t) ==
    IF s.den2 = 0 \/ t.den2 = 0 THEN s.den2 = 0 /\ t.den2 = 0
    ELSE ~ScoreGreater(s, t) /\ ~ScoreGreater(t, s)

StrategiesShown(answer) ==
    {st \in {"summarize", "enumerate", "contains", "general"} :
        \/ st = "summarize" /\ " about \"" \in Range(answer)
        \/ st = "enumerate" /\ ":" \in Range(answer)
        \/ st = "contains"  /\ "** contains:" \in Range(answer)
        \/ st = "general"   /\ "**:" \in Range(answer)}

\* the first intent family, in the order summarize, enumerate, contains,
\* whose pattern matches the question; general when none does
FirstFamily(question) ==
    IF MatchesSummarize(question) THEN "summarize"
    ELSE IF MatchesEnumerate(question) THEN "enumerate"
    ELSE IF MatchesContains(question) THEN "contains"
    ELSE "general"

\* C20: the answer of the local synthesizer is made by exactly one
\* extraction strategy, that of the first intent family matching the
\* question in the order summarize, enumerate, contains; the general
\* strategy only when no family matches.
C20_IntentOrder ==
    (calc.op = "generateText" /\ calc.done)
    => StrategiesShown(calc.out) = {FirstFamily(Trim(calc.in.query))}

C20_Witness ==
    /\ calc.op = "generateText" /\ calc.done
    /\ calc.in.query = "what does my list contain"
    /\ MatchesEnumerate(calc.in.query) /\ MatchesContains(calc.in.query)
    /\ StrategiesShown(calc.out) = {"enumerate"}

\* C21: in local mode a question that holds "what is in", "what's in" or
\* "what does ... contain" is answered by the contains strategy, which
\* gives per document at most 8 key points.
C21_ContainsQuestions ==
    (calc.op = "generateText" /\ calc.done /\ MatchesContains(Trim(calc.in.query)))
    => /\ StrategiesShown(calc.out) = {"contains"}
       /\ \A k \in 1..Len(calc.in.blocks) :
             Len(CollectKeyPoints(DocLines(calc.in.blocks[k]), <<>>)) <= KeyPoints

\* the characters of a document an earlier queryVault put in the prompt
RemoteDocChars == 2000

\* C22: the prompt holds the whole content of every document read in local
\* mode and at most RemoteDocChars characters of each in remote mode.
C22_ContextSizes ==
    (calc.op = "userPrompt" /\ calc.done)
    => /\ Len(calc.out.context) = Len(calc.in.contexts)
       /\ \A k \in 1..Len(calc.in.contexts) :
             /\ calc.out.context[k].file = calc.in.contexts[k].file
             /\ calc.in.mode = "local"
                => calc.out.context[k].chars = calc.in.contexts[k].chars
             /\ calc.in.mode = "openai"
                => calc.out.context[k].chars <= RemoteDocChars

\* a conversation history that holds at least one message
NonEmptyHistory(history) == history.present /\ Len(history.msgs) > 0

\* C23: with a non-empty conversation history the text embedded for
\* retrieval is the query followed by the recent history, and in remote mode
\* the recent history is part of what the completion provider is sent; with
\* an empty or absent history the text embedded is the query alone.
C23_HistoryUsed ==
    /\ (calc.op = "queryForEmbedding" /\ calc.done)
       => IF NonEmptyHistory(calc.in.history)
          THEN /\ calc.out[1] = calc.in.query
               /\ \A k \in 1..Len(recentContext(calc.in.history)) :
                     recentContext(calc.in.history)[k] \in Range(calc.out)
          ELSE calc.out = <<calc.in.query>>
    /\ (calc.op = "userPrompt" /\ calc.done /\ calc.in.mode = "openai"
        /\ NonEmptyHistory(calc.in.history))
       => \E k \in 1..Len(CompletionRequest(calc.out).messages) :
             CompletionRequest(calc.out).messages[k].content.history
                = recentContext(calc.in.history)

\* some word of the question longer than 3 characters occurs in document p
Relevant(p, question) ==
    \E k \in 1..Len(Words(LowerQ(question))) :
        /\ Len(Words(LowerQ(question))[k]) > MinQuestionWordLen
        /\ ContentIncludes(p, Words(LowerQ(question))[k])

\* the answer shows a block of document p: its heading or a line of it
Emitted(p, answer) ==
    \/ StripMd(p) \in Range(answer)
    \/ \E k \in 1..Len(DocLines(p)) : DocLines(p)[k] \in Range(answer)

\* C24: in the general strategy of the local synthesizer a document is
\* shown only if a word of the question longer than 3 characters occurs in
\* it or it is the only document of the context; when no document may be
\* shown (none is relevant, or the context is empty) the answer is the fixed
\* could-not-find message, it shows no document and it gives no citation.
C24_GeneralStrategy ==
    (calc.op = "generateText" /\ calc.done
     /\ FirstFamily(Trim(calc.in.query)) = "general")
    => /\ \A k \in 1..Len(calc.in.blocks) :
             Emitted(calc.in.blocks[k], calc.out)
             => \/ Relevant(calc.in.blocks[k], Trim(calc.in.query))
                \/ Len(calc.in.blocks) = 1
       /\ (/\ Len(calc.in.blocks) # 1
           /\ \A k \in 1..Len(calc.in.blocks) :
                 ~Relevant(calc.in.blocks[k], Trim(calc.in.query)))
          => /\ Take(calc.out, 1) = CouldNotFindAnswer
             /\ \A k \in 1..Len(calc.in.blocks) : ~Emitted(calc.in.blocks[k], calc.out)
             /\ ExtractCitations(calc.out) = <<>>

\* C25: isModelBeingLoaded() is true in exactly the states where at least
\* one load of the embedding model is in flight, however the concurrent
\* calls interleave.
C25_LoadingFlagExact == isModelBeingLoaded <=> (LoadsInFlight > 0)

\* the provider modes a call is known to have used so far: the mode read at
\* entry (a greeting is flagged in local mode only), by getEmbedding (a model
\* load or inference is local, an embeddings request remote) and by the
\* synthesis
ModesUsed(s) ==
    {m \in Modes :
        \/ m = "local" /\ (s.greeting \/ s.loaded \/ s.pc \in {"load", "infer"}
                           \/ s.synthMode = "local")
        \/ m = "openai" /\ (s.pc \in {"remoteEmbed", "completion"}
                            \/ s.synthMode = "openai")}

\* C26: one call of queryVault uses a single provider mode from its entry
\* check to its synthesis, whatever setAIMode, initializeAI or
\* initializeLocalAI do while it is suspended.
C26_OneModePerCall == \A q \in Callers : Cardinality(ModesUsed(qs[q])) <= 1

\* the call q was made with a query that is too short to search for and is
\* not a greeting, or with a greeting that passed the entry in remote mode
ShortOrRemoteGreeting(s) ==
    /\ s.pc # "idle"
    /\ s.nList > 0
    /\ \/ ~IsGreeting(s.query) /\ ~Substantial(s.query)
       \/ IsGreeting(s.query) /\ ~s.greeting

\* C27: for a query of trimmed length at most 3 that is no greeting, and for
\* a greeting in remote mode, queryVault ranks nothing (no embedding is
\* requested, no lexical score taken), reads no document, does not return
\* the nothing-relevant result, and its result comes from one call of the
\* synthesizer on an empty context.
C27_ShortQueries ==
    \A q \in Callers :
        ShortOrRemoteGreeting(qs[q])
        => /\ ~qs[q].embedded
           /\ qs[q].ranker = "none"
           /\ qs[q].relevantFiles = <<>>
           /\ qs[q].nRead = 0
           /\ qs[q].contexts = <<>>
           /\ qs[q].pc = "done"
              => /\ qs[q].answer # NothingRelevantAnswer(qs[q].query)
                 /\ qs[q].nCompl + qs[q].nLocalSynth = 1

\* C28: every citation of a result is the path of a document that was read
\* into the context of that call, so a result has at most maxContextFiles
\* citations.
C28_CitationsFromContext ==
    \A q \in Callers :
        qs[q].pc = "done"
        => /\ Range(qs[q].citations) \subseteq Range(qs[q].contexts)
           /\ Len(qs[q].citations) <= qs[q].maxContextFiles

\* the candidates a call scans (ai.ts:482)
Candidates(s) == Len(Take(s.allFiles, MaxScan))

\* the load q waited for has failed in this step
LoadFailedStep(q) == qs[q].pc = "load" /\ qs'[q].pc \notin {"load", "infer"}

\* q asks for a local embedding in this step
LocalEmbedStep(q) ==
    /\ qs'[q].pc \in {"load", "infer"}
    /\ qs[q].pc \notin {"load", "infer"}

C30_EveryCallCompletes ==
    \A q \in Callers : Running(qs[q]) ~> (qs[q].pc \in {"done", "failed"})

\* both concurrent calls have ended after each of them started a load of the
\* shared model
C30_Witness ==
    /\ \A q \in Callers : qs[q].pc \in {"done", "failed"} /\ qs[q].nLoad >= 1
    /\ \E q \in Callers : qs[q].pc = "done"

====
